---- MODULE Spec2Model ----
(***************************************************************************)
(* LD index construction, src/src/otg/dataset/ld_index.py (class LDIndex), *)
(* with the schema validation of src/src/gentropy/dataset/dataset.py.      *)
(*                                                                         *)
(* Encoding.  A Spark DataFrame / Hail table is a bag (multiset) of        *)
(* records: a function from records to positive row counts.  A correlation *)
(* r is an integer number of hundredths (r = 100 is 1.0), min_r2 an        *)
(* integer number of ten-thousandths (min_r2 = 7000 is 0.7), so that r*r   *)
(* and min_r2 are in the same unit.  A NULL string is the string "NULL"; a *)
(* NULL position is 0 (genomic positions are 1-based).                     *)
(***************************************************************************)
EXTENDS Bags, FiniteSets, Integers, Sequences, TLC

\* ------------------------------------------------------------- bounds ---
MaxIdx == 2        \* matrix coordinates are 0..MaxIdx
MaxEntries == 2    \* stored entries of one population's block matrix
MaxPops == 2       \* length of ld_populations
MaxFields == 2     \* fields of an observed dataframe schema
MaxRows == 2       \* distinct rows of a dataframe
MaxSteps == 2      \* steps of configs/dag.yaml
MaxPrerequisites == 2   \* prerequisites listed for one step

Idx == 0..MaxIdx
RValues == {80, 0 - 85, 100}
MinR2Values == {7000, 10000}
PopulationNames == <<"EUR", "AFR", "EAS">>
NullId == "NULL"

VARIABLES
    ld_populations,   \* from_gnomad argument: list of population names
    min_r2,           \* from_gnomad argument
    storage,          \* what the two path templates point to, per population
    schema,           \* LDIndex._schema, the content of ld_index.json
    pc,               \* position in from_gnomad
    pop_i,            \* 1-based position of the for loop in ld_populations
    ld_matrix,        \* local of _create_ldindex_for_population
    ld_index,         \* local of _create_ldindex_for_population
    pop_ld_index,     \* from_gnomad: frame returned for the current population
    ld_indices,       \* from_gnomad: list of per-population frames
    diagnostics,      \* lines printed by the except branch
    outcome,          \* how from_gnomad ended
    result,           \* _df of the returned LDIndex
    dataset,          \* a Dataset instance: the receiver (self) of the calls
    new_dataset,      \* the instance the last call returned
    raised,           \* the exception the last Dataset call raised
    call,             \* the last Dataset call and its arguments
    steps,            \* dag_genetics_etl: the parsed configs/dag.yaml
    tasks,            \* dag_genetics_etl: dict from step id to its task
    upstream,         \* the DAG's edges, pairs <<task, upstream task>>
    dag_pc,           \* position in the DAG file, then "built" or "KeyError"
    step_i,           \* 1-based position of the for loop in steps
    prerequisite_i,   \* 1-based position of the inner loop in prerequisites
    task_state,       \* the scheduler's state of every task of the DAG run
    positive_set,     \* expand_gold_standard_with_negatives argument
    v2g,              \* expand_gold_standard_with_negatives argument (v2g.df)
    gold_standard,    \* the dataframe expand_gold_standard_with_negatives returns
    gs_pc             \* "call" before expand_gold_standard_with_negatives, "returned" after

\* from_gnomad's state and the Dataset state
ldvars == <<ld_populations, min_r2, storage, schema, pc, pop_i, ld_matrix,
            ld_index, pop_ld_index, ld_indices, diagnostics, outcome, result>>

dsvars == <<dataset, new_dataset, raised, call>>

\* the DAG file's state and the gold standard's state
dagvars == <<steps, tasks, upstream, dag_pc, step_i, prerequisite_i, task_state>>

gsvars == <<positive_set, v2g, gold_standard, gs_pc>>

vars == <<ld_populations, min_r2, storage, schema, pc, pop_i, ld_matrix,
          ld_index, pop_ld_index, ld_indices, diagnostics, outcome, result,
          dataset, new_dataset, raised, call,
          steps, tasks, upstream, dag_pc, step_i, prerequisite_i, task_state,
          positive_set, v2g, gold_standard, gs_pc>>

\* The DAG file has not been loaded
NoDagFile ==
    /\ steps = <<>>
    /\ tasks = <<>>
    /\ upstream = {}
    /\ dag_pc = "none"
    /\ step_i = 1
    /\ prerequisite_i = 1
    /\ task_state = <<>>

\* No gold standard has been expanded
NoGoldStandard ==
    /\ positive_set = EmptyBag
    /\ v2g = EmptyBag
    /\ gold_standard = EmptyBag
    /\ gs_pc = "none"

\* ------------------------------------------------- DataFrame primitives ---
RECURSIVE SumOver(_, _)
SumOver(B, S) ==
    IF S = {} THEN 0
    ELSE LET x == CHOOSE y \in S : TRUE IN B[x] + SumOver(B, S \ {x})

\* DataFrame.filter: the rows of B that are in kept
BagFilter(B, kept) == [e \in DOMAIN B \cap kept |-> B[e]]

\* DataFrame.select / selectExpr / withColumn: row x becomes row f[x]
BagMap(B, f) ==
    [y \in {f[x] : x \in DOMAIN B} |-> SumOver(B, {x \in DOMAIN B : f[x] = y})]

\* DataFrame.unionByName: keeps duplicates (UNION ALL)
UnionByName(A, B) == A (+) B

Abs(x) == IF x < 0 THEN 0 - x ELSE x

RECURSIVE LeastRoot(_, _)
\* the least k' >= k with k' * k' >= m
LeastRoot(m, k) == IF k * k >= m THEN k ELSE LeastRoot(m, k + 1)

\* min_r2**0.5 on the grid of hundredths: for an integer a >= 0, a >= sqrt(m)
\* exactly when a >= the least k with k * k >= m.
SqrtThreshold(m) == LeastRoot(m, 0)

\* ------------------------------------------------ matrix reconstruction ---
Transposed(ld) == BagMap(ld, [e \in DOMAIN ld |-> [i |-> e.j, j |-> e.i, r |-> e.r]])

_transpose_ld_matrix(ld) ==
    UnionByName(BagFilter(ld, {e \in DOMAIN ld : e.i = e.j}), Transposed(ld))

\* The threshold compared with min_r2 itself, the square root forgotten
\* (|r| >= min_r2, that is 100 * |entry| >= m in these units)
ThresholdedTable_NoSqrt(block_matrix, m) ==
    LET kept == BagFilter(block_matrix,
                          {e \in DOMAIN block_matrix : 100 * Abs(e.entry) >= m})
    IN BagMap(kept, [e \in DOMAIN kept |-> [i |-> e.i, j |-> e.j, r |-> e.entry]])

\* table.filter(hl.abs(table.entry) >= min_r2**0.5).to_spark()
\*      .withColumnRenamed("entry", "r")
ThresholdedTable(block_matrix, m) ==
    LET kept == BagFilter(block_matrix,
                          {e \in DOMAIN block_matrix : Abs(e.entry) >= SqrtThreshold(m)})
    IN BagMap(kept, [e \in DOMAIN kept |-> [i |-> e.i, j |-> e.j, r |-> e.entry]])

_convert_ld_matrix_to_table(block_matrix, m) ==
    _transpose_ld_matrix(ThresholdedTable(block_matrix, m))

\* ------------------------------------------------------ variant index ---
\* The chain file: where a GRCh37 locus lands in GRCh38.  Positions 1 and 2
\* land on the same GRCh38 locus (ambiguous liftover); positions 4, 10, 20
\* and 30 land on loci of their own; any other position has no mapping.
grch37_to_grch38_chain(contig, position) ==
    CASE position = 1 -> [contig |-> "chr" \o contig, position |-> 101]
      [] position = 2 -> [contig |-> "chr" \o contig, position |-> 101]
      [] position = 4 -> [contig |-> "chr" \o contig, position |-> 104]
      [] position = 10 -> [contig |-> "chr" \o contig, position |-> 100]
      [] position = 20 -> [contig |-> "chr" \o contig, position |-> 200]
      [] position = 30 -> [contig |-> "chr" \o contig, position |-> 300]
      [] OTHER -> [contig |-> NullId, position |-> 0]

\* otg.common.utils._liftover_loci: annotates every row with locus_GRCh38,
\* NULL where the locus has no mapping; no row is added or removed.
_liftover_loci(ld_index_raw) ==
    BagMap(ld_index_raw,
           [row \in DOMAIN ld_index_raw |->
               [idx |-> row.idx, alleles |-> row.alleles,
                contig38 |-> grch37_to_grch38_chain(row.contig, row.position).contig,
                position38 |-> grch37_to_grch38_chain(row.contig, row.position).position]])

IsNotNull(position) == position > 0

\* f.regexp_replace(contig, "chr", "")
StripChr(contig) ==
    CASE contig = "chr1" -> "1"
      [] contig = "chr2" -> "2"
      [] OTHER -> contig

\* otg.common.utils.convert_gnomad_position_to_ensembl
convert_gnomad_position_to_ensembl(position, reference, alternate) == position

\* The two alleles composed in the reverse order
VariantId_AllelesSwapped(chromosome, position, alleles) ==
    chromosome \o "_" \o ToString(position) \o "_" \o alleles[2] \o "_" \o alleles[1]

\* f.concat_ws("_", chromosome, position, alleles[0], alleles[1])
VariantId(chromosome, position, alleles) ==
    chromosome \o "_" \o ToString(position) \o "_" \o alleles[1] \o "_" \o alleles[2]

\* f.count("*").over(Window.partitionBy(["variantId"]))
WindowCount(B, row) == SumOver(B, {x \in DOMAIN B : x.variantId = row.variantId})

\* lines 83-104: chromosome, position and variantId of a lifted row
SelectVariantId(row) ==
    LET chromosome == StripChr(row.contig38)
        position == convert_gnomad_position_to_ensembl(
                        row.position38, row.alleles[1], row.alleles[2])
    IN [variantId |-> VariantId(chromosome, position, row.alleles),
        position |-> position,
        idx |-> row.idx]

\* The rows whose liftover failed are kept
DerivedVariantIds_KeepUnlifted(ld_index_raw) ==
    LET lifted == _liftover_loci(ld_index_raw)
    IN BagMap(lifted, [row \in DOMAIN lifted |-> SelectVariantId(row)])

\* lines 79-104: drop the rows whose liftover failed, derive variantId
DerivedVariantIds(ld_index_raw) ==
    LET ld_index_38 == _liftover_loci(ld_index_raw)
        lifted == BagFilter(ld_index_38,
                            {row \in DOMAIN ld_index_38 : IsNotNull(row.position38)})
    IN BagMap(lifted, [row \in DOMAIN lifted |-> SelectVariantId(row)])

\* The ambiguity filter off by one: groups of two rows pass
_process_variant_indices_CountTwo(ld_index_raw) ==
    LET selected == DerivedVariantIds(ld_index_raw)
    IN BagFilter(selected, {row \in DOMAIN selected : WindowCount(selected, row) <= 2})

_process_variant_indices(ld_index_raw) ==
    LET selected == DerivedVariantIds(ld_index_raw)
    IN BagFilter(selected, {row \in DOMAIN selected : WindowCount(selected, row) = 1})

\* ------------------------------------------------------ entry resolver ---
\* DataFrame.join(other, on="i", how="left")
LeftJoinOnI(M, X) ==
    LET matched == {p \in (DOMAIN M) \X (DOMAIN X) : p[1].i = p[2].i}
        unmatched == {m \in DOMAIN M : \A x \in DOMAIN X : x.i # m.i}
        rows == {[i |-> p[1].i, j |-> p[1].j, r |-> p[1].r,
                  variantId_i |-> p[2].variantId_i] : p \in matched}
                \cup {[i |-> m.i, j |-> m.j, r |-> m.r, variantId_i |-> NullId] : m \in unmatched}
    IN [y \in rows |->
          LET m == [i |-> y.i, j |-> y.j, r |-> y.r]
          IN IF y.variantId_i = NullId THEN M[m]
             ELSE M[m] * X[[i |-> y.i, variantId_i |-> y.variantId_i]]]

\* DataFrame.join(other, on="j", how="inner")
InnerJoinOnJ(M, X) ==
    LET matched == {p \in (DOMAIN M) \X (DOMAIN X) : p[1].j = p[2].j}
        rows == {[j |-> p[1].j, i |-> p[1].i, r |-> p[1].r,
                  variantId_i |-> p[1].variantId_i,
                  variantId_j |-> p[2].variantId_j] : p \in matched}
    IN [y \in rows |->
          M[[i |-> y.i, j |-> y.j, r |-> y.r, variantId_i |-> y.variantId_i]]
          * X[[j |-> y.j, variantId_j |-> y.variantId_j]]]

_resolve_variant_indices(ld_idx, ld_mat) ==
    LET ld_index_i == BagMap(ld_idx, [x \in DOMAIN ld_idx |->
                                         [i |-> x.idx, variantId_i |-> x.variantId]])
        ld_index_j == BagMap(ld_idx, [x \in DOMAIN ld_idx |->
                                         [j |-> x.idx, variantId_j |-> x.variantId]])
    IN InnerJoinOnJ(LeftJoinOnI(ld_mat, ld_index_i), ld_index_j)

_create_ldindex_for_population(store, m) ==
    _resolve_variant_indices(_process_variant_indices(store.ld_index_raw),
                             _convert_ld_matrix_to_table(store.block_matrix, m))

_aggregate_ld_index_across_populations(unaggregated_ld_index) == unaggregated_ld_index

\* -------------------------------------------------- schema validation ---
\* Schemas are lists of top-level fields [name, dataType, nullable]; the
\* dataType is the name of the pyspark type, with the element type for an
\* array.

\* gentropy.common.schemas.flatten_schema on a schema without nested
\* structs: one Field(name, dataType) per field, the nullable flag dropped
flatten_schema(schema_fields) ==
    [k \in DOMAIN schema_fields |->
        [name |-> schema_fields[k].name, dataType |-> schema_fields[k].dataType]]

\* type(field.dataType): the class of the data type, without its parameters
TypeOf(dataType) ==
    CASE dataType \in {"ArrayType(StringType)", "ArrayType(LongType)"} -> "ArrayType"
      [] OTHER -> dataType

FieldNames(fields) == {fields[k].name : k \in DOMAIN fields}

\* {field.name: type(field.dataType) for field in fields}: the last field of
\* a name sets the entry
FieldType(fields, name) ==
    LET last == CHOOSE k \in DOMAIN fields :
                    /\ fields[k].name = name
                    /\ \A l \in DOMAIN fields : fields[l].name = name => l <= k
    IN TypeOf(fields[last].dataType)

validate_schema(observed_schema, expected_schema) ==
    LET observed_fields == flatten_schema(observed_schema)
        expected_fields == flatten_schema(expected_schema)
        unexpected_field_names ==
            {k \in DOMAIN observed_fields :
                observed_fields[k].name \notin FieldNames(expected_fields)}
        missing_required_fields ==
            {k \in DOMAIN expected_schema :
                /\ ~expected_schema[k].nullable
                /\ expected_schema[k].name \notin FieldNames(observed_fields)}
        duplicated_fields ==
            {k \in DOMAIN observed_fields :
                \E l \in DOMAIN observed_fields :
                    l # k /\ observed_fields[l] = observed_fields[k]}
        fields_with_different_observed_datatype ==
            {name \in FieldNames(observed_fields) :
                /\ name \in FieldNames(expected_fields)
                /\ FieldType(observed_fields, name) # FieldType(expected_fields, name)}
    IN IF unexpected_field_names # {} THEN "ValueError"
       ELSE IF missing_required_fields # {} THEN "ValueError"
       ELSE IF duplicated_fields # {} THEN "ValueError"
       ELSE IF fields_with_different_observed_datatype # {} THEN "ValueError"
       ELSE "valid"

\* Schema of the frame _resolve_variant_indices returns: the join columns
\* first, then the remaining columns of the left and of the right side.
ResolvedSchema ==
    << [name |-> "j", dataType |-> "LongType", nullable |-> TRUE],
       [name |-> "i", dataType |-> "LongType", nullable |-> TRUE],
       [name |-> "r", dataType |-> "DoubleType", nullable |-> TRUE],
       [name |-> "variantId_i", dataType |-> "StringType", nullable |-> TRUE],
       [name |-> "variantId_j", dataType |-> "StringType", nullable |-> TRUE] >>

\* Candidate contents of ld_index.json: one that lists the columns the
\* pipeline produces, one that requires a population column.
LdIndexSchemas ==
    { ResolvedSchema,
      << [name |-> "variantId_i", dataType |-> "StringType", nullable |-> FALSE],
         [name |-> "variantId_j", dataType |-> "StringType", nullable |-> FALSE],
         [name |-> "r", dataType |-> "DoubleType", nullable |-> FALSE],
         [name |-> "population", dataType |-> "StringType", nullable |-> FALSE] >> }

\* ------------------------------------------------------------- inputs ---
RECURSIVE SubsetsUpTo(_, _)
SubsetsUpTo(S, n) ==
    IF n = 0 THEN {{}}
    ELSE LET prev == SubsetsUpTo(S, n - 1)
         IN prev \cup {T \cup {x} : T \in prev, x \in S}

\* Stored entries of a triangular block matrix (row <= col)
TriangularEntries ==
    {e \in [i : Idx, j : Idx, entry : RValues] : e.i <= e.j}

BlockMatrices == {SetToBag(S) : S \in SubsetsUpTo(TriangularEntries, MaxEntries)}

\* gnomAD's variant index: one row per matrix coordinate, keyed by locus and
\* alleles (GRCh37)
RowKeys ==
    { [contig |-> "1", position |-> 1, alleles |-> <<"A", "G">>],
      [contig |-> "1", position |-> 2, alleles |-> <<"A", "G">>],
      [contig |-> "1", position |-> 3, alleles |-> <<"A", "G">>],
      [contig |-> "1", position |-> 4, alleles |-> <<"A", "G">>],
      [contig |-> "1", position |-> 1, alleles |-> <<"A", "T">>] }

RawTables ==
    { SetToBag({[idx |-> x, contig |-> t[x].contig, position |-> t[x].position,
                 alleles |-> t[x].alleles] : x \in Idx}) :
        t \in {u \in [Idx -> RowKeys] : \A x, y \in Idx : x # y => u[x] # u[y]} }

\* A few tables and matrices
SampleTable(keys) ==
    SetToBag({[idx |-> x,
               contig |-> "1",
               position |-> IF x + 1 <= Len(keys) THEN keys[x + 1][1] ELSE 3 + x,
               alleles |-> IF x + 1 <= Len(keys) THEN keys[x + 1][2] ELSE <<"A", "G">>]
              : x \in Idx})

\* every idx resolved; idx 1 unlifted; idx 1 and idx 2 on one variantId
SampleTables ==
    { SampleTable(<< <<1, <<"A", "G">> >>, <<4, <<"A", "G">> >>, <<1, <<"A", "T">> >> >>),
      SampleTable(<< <<4, <<"A", "G">> >>, <<3, <<"A", "G">> >>, <<1, <<"A", "T">> >> >>),
      SampleTable(<< <<1, <<"A", "T">> >>, <<1, <<"A", "G">> >>, <<2, <<"A", "G">> >> >>) }

SampleMatrices ==
    { SetToBag({[i |-> 0, j |-> 0, entry |-> 100], [i |-> 0, j |-> 1, entry |-> 0 - 85]}),
      SetToBag({[i |-> 1, j |-> 2, entry |-> 100], [i |-> 0, j |-> 2, entry |-> 80]}) }

Faults == {"matrix", "index", "chain"}

Readable(M, T) == [fault |-> "none", block_matrix |-> M, ld_index_raw |-> T]

Unreadable(fault, M) == [fault |-> fault, block_matrix |-> M, ld_index_raw |-> EmptyBag]

\* The worked example: six stored entries of a 3 x 3 matrix, three variants
\* that lift to 1:100 A/G, 1:200 A/T and 1:300 C/G
ExampleMatrix ==
    SetToBag({[i |-> 0, j |-> 0, entry |-> 100], [i |-> 0, j |-> 1, entry |-> 90],
              [i |-> 0, j |-> 2, entry |-> 30], [i |-> 1, j |-> 1, entry |-> 100],
              [i |-> 1, j |-> 2, entry |-> 85], [i |-> 2, j |-> 2, entry |-> 100]})

ExampleTable ==
    SetToBag({[idx |-> 0, contig |-> "1", position |-> 10, alleles |-> <<"A", "G">>],
              [idx |-> 1, contig |-> "1", position |-> 20, alleles |-> <<"A", "T">>],
              [idx |-> 2, contig |-> "1", position |-> 30, alleles |-> <<"C", "G">>]})

\* What one population's two paths can hold: every matrix with a sample
\* table, every table with a sample matrix, the worked example, and each
\* unreadable input
PopStorages ==
    {Readable(M, T) : M \in BlockMatrices, T \in SampleTables}
    \cup {Readable(ExampleMatrix, ExampleTable)}
    \cup {Readable(M, T) : M \in SampleMatrices, T \in RawTables}
    \cup {Unreadable("matrix", EmptyBag)}
    \cup {Unreadable(fault, M) : fault \in Faults \ {"matrix"}, M \in SampleMatrices}

\* The storages for runs over several populations
SampleStorages ==
    {Readable(M, T) : M \in SampleMatrices, T \in SampleTables}
    \cup {Unreadable("matrix", EmptyBag)}
    \cup {Unreadable(fault, M) : fault \in Faults \ {"matrix"}, M \in SampleMatrices}

\* ---------------------------------------------------------------- Dataset ---
\* src/src/gentropy/dataset/dataset.py.  A DataFrame is [schema, rows]: the
\* list of fields of df.schema and the bag of rows.  A Dataset instance is
\* [cls, _df, _schema].
Classes == {"StudyIndex", "SummaryStatistics"}

\* cls.get_schema(): StudyIndex has a required identifier and a nullable QC
\* column, SummaryStatistics two required columns
get_schema(cls) ==
    IF cls = "StudyIndex"
    THEN << [name |-> "studyId", dataType |-> "StringType", nullable |-> FALSE],
            [name |-> "qualityControls", dataType |-> "ArrayType(StringType)",
             nullable |-> TRUE] >>
    ELSE << [name |-> "studyId", dataType |-> "StringType", nullable |-> FALSE],
            [name |-> "beta", dataType |-> "DoubleType", nullable |-> FALSE] >>

NoneName == "None"

\* None unless overridden by the child class
get_QC_column_name(cls) == IF cls = "StudyIndex" THEN "qualityControls" ELSE NoneName

QcFlags == {"DUPLICATED_STUDY", "UNKNOWN_STUDY_TYPE"}

\* {} unless overridden by the child class: flag name -> QC column value
get_QC_mappings(cls) ==
    IF cls = "StudyIndex"
    THEN [flag \in QcFlags |->
             IF flag = "DUPLICATED_STUDY"
             THEN "The identifier of this study is not unique."
             ELSE "This type of study is not supported."]
    ELSE [flag \in {} |-> ""]

QcReasons == {get_QC_mappings("StudyIndex")[flag] : flag \in QcFlags}

\* Observed schemas: every list of up to MaxFields fields.  Every name comes
\* with every type; the nullable flag varies for studyId.
FieldPool ==
    [name : {"studyId", "qualityControls", "beta"},
     dataType : {"StringType", "DoubleType", "ArrayType(StringType)", "ArrayType(LongType)"},
     nullable : {TRUE}]
    \cup [name : {"studyId"},
          dataType : {"StringType", "DoubleType", "ArrayType(StringType)",
                      "ArrayType(LongType)"},
          nullable : {FALSE}]

ObservedSchemas == UNION {[1..n -> FieldPool] : n \in 0..MaxFields}

\* A value of the QC column: NULL, or an array of reasons that may hold a
\* NULL element
NullQc == [is_null |-> TRUE, elems |-> {}, has_null |-> FALSE]

QcValues ==
    {NullQc} \cup {[is_null |-> FALSE, elems |-> e, has_null |-> n] :
                      e \in SUBSET QcReasons, n \in BOOLEAN}

\* Values of a double column: a finite one, the two infinities, NULL
NullDouble == "NULL"

InfinityValues == {"Infinity", "-Infinity"}

\* Rows of a class's dataframes.  StudyIndex: a study with every QC value
\* and a second study; SummaryStatistics (no QC column): a study with every
\* beta and a second study.  A column the class does not have is NULL resp.
\* finite in every row.
RowValues(cls) ==
    IF cls = "StudyIndex"
    THEN [studyId : {"S1"}, qualityControls : QcValues, beta : {"1.0"}]
         \cup [studyId : {"S2"}, qualityControls : {NullQc}, beta : {"1.0"}]
    ELSE [studyId : {"S1"}, qualityControls : {NullQc},
          beta : {"1.0", NullDouble} \cup InfinityValues]
         \cup [studyId : {"S2"}, qualityControls : {NullQc}, beta : {"1.0"}]

SampleRows ==
    [studyId |-> "S1", qualityControls |-> NullQc, beta |-> "1.0"] :> 2

\* A dataframe as read or computed: not persisted, in two partitions
DataFrame(schema_fields, rows) ==
    [schema |-> schema_fields, rows |-> rows, persisted |-> FALSE, num_partitions |-> 2]

\* The dataframes a Dataset of class cls is built from: every row set under
\* the class's schema, every observed schema over a few rows
DataFrames(cls) ==
    {DataFrame(get_schema(cls), SetToBag(S)) : S \in SubsetsUpTo(RowValues(cls), MaxRows)}
    \cup {DataFrame(o, SampleRows) : o \in ObservedSchemas}

NoDataFrame == DataFrame(<<>>, EmptyBag)

NoDataset == [cls |-> NoneName, _df |-> NoDataFrame, _schema |-> <<>>]

\* Column expressions: studyId = value, the filterCondition of valid_rows
\* and its negation.  A condition evaluates to "true", "false" or "null".
NoCondition == [kind |-> "none", value |-> "", reasons |-> {}]

Conditions == {[kind |-> "eq", value |-> v, reasons |-> {}] : v \in {"S1", "S2"}}

Not3(v) == CASE v = "true" -> "false" [] v = "false" -> "true" [] OTHER -> "null"

\* f.when(f.col(column).isNull(), f.array()).otherwise(f.col(column))
EmptyIfNull(qc) ==
    IF qc.is_null THEN [is_null |-> FALSE, elems |-> {}, has_null |-> FALSE] ELSE qc

\* f.arrays_overlap(f.array(literals), qc): true on a common non-null
\* element; else null when both arrays are non-empty and one holds a NULL;
\* else false
arrays_overlap(literals, qc) ==
    IF literals \cap qc.elems # {} THEN "true"
    ELSE IF literals # {} /\ qc.has_null THEN "null"
    ELSE "false"

Eval(condition, row) ==
    CASE condition.kind = "eq" ->
             IF row.studyId = condition.value THEN "true" ELSE "false"
      [] condition.kind = "filterCondition" ->
             Not3(arrays_overlap(condition.reasons, EmptyIfNull(row.qualityControls)))
      [] condition.kind = "not_filterCondition" ->
             Not3(Not3(arrays_overlap(condition.reasons, EmptyIfNull(row.qualityControls))))
      [] condition.kind = "not_isin_infinity" ->
             Not3(IF \E c \in condition.cols : row[c] \in InfinityValues THEN "true"
                  ELSE IF \E c \in condition.cols : row[c] = NullDouble THEN "null"
                  ELSE "false")

\* DataFrame.filter(condition): the rows on which the condition is true
DataFrameFilter(df, condition) ==
    [df EXCEPT !.rows = BagFilter(df.rows, {x \in DOMAIN df.rows :
                                               Eval(condition, x) = "true"}),
               !.persisted = FALSE]

\* cls(_df=df, _schema=schema_fields): __post_init__ validates, and no
\* instance exists when it raises
class_constructor(cls, df, schema_fields) ==
    IF validate_schema(df.schema, schema_fields) = "valid"
    THEN [raised |-> "none",
          instance |-> [cls |-> cls, _df |-> df, _schema |-> schema_fields]]
    ELSE [raised |-> "ValueError", instance |-> NoDataset]

\* The filtered rows are stored in the receiver, which is returned
filter_InPlace(self, condition) ==
    [raised |-> "none",
     instance |-> [cls |-> self.cls, _df |-> DataFrameFilter(self._df, condition),
                   _schema |-> self._schema],
     self |-> [cls |-> self.cls, _df |-> DataFrameFilter(self._df, condition),
               _schema |-> self._schema]]

\* Dataset.filter: what the call raises, the instance it returns, and the
\* receiver after the call
filter(self, condition) ==
    LET made == class_constructor(self.cls, DataFrameFilter(self._df, condition),
                                  get_schema(self.cls))
    IN [raised |-> made.raised, instance |-> made.instance, self |-> self]

\* A flag that is no key of the QC mappings is skipped, not refused
valid_rows_SkipsUnknownFlags(self, invalid_flags, invalid) ==
    LET mappings == get_QC_mappings(self.cls)
        invalid_reasons == {mappings[invalid_flags[k]] :
                               k \in {l \in DOMAIN invalid_flags :
                                         invalid_flags[l] \in DOMAIN mappings}}
        qc_column_name == get_QC_column_name(self.cls)
        filterCondition == [kind |-> "filterCondition", value |-> "",
                            reasons |-> invalid_reasons]
    IN IF qc_column_name = NoneName
       THEN [raised |-> "ValueError", instance |-> NoDataset, self |-> self]
       ELSE IF qc_column_name \notin FieldNames(self._df.schema)
       THEN [raised |-> "AnalysisException", instance |-> NoDataset, self |-> self]
       ELSE IF invalid
       THEN filter(self, [filterCondition EXCEPT !.kind = "not_filterCondition"])
       ELSE filter(self, filterCondition)

\* Dataset.valid_rows
valid_rows(self, invalid_flags, invalid) ==
    LET mappings == get_QC_mappings(self.cls)
        invalid_reasons == {mappings[invalid_flags[k]] :
                               k \in {l \in DOMAIN invalid_flags :
                                         invalid_flags[l] \in DOMAIN mappings}}
        qc_column_name == get_QC_column_name(self.cls)
        filterCondition == [kind |-> "filterCondition", value |-> "",
                            reasons |-> invalid_reasons]
    IN IF \E k \in DOMAIN invalid_flags : invalid_flags[k] \notin DOMAIN mappings
       THEN [raised |-> "ValueError", instance |-> NoDataset, self |-> self]
       ELSE IF qc_column_name = NoneName
       THEN [raised |-> "ValueError", instance |-> NoDataset, self |-> self]
       ELSE IF qc_column_name \notin FieldNames(self._df.schema)
       THEN [raised |-> "AnalysisException", instance |-> NoDataset, self |-> self]
       ELSE IF invalid
       THEN filter(self, [filterCondition EXCEPT !.kind = "not_filterCondition"])
       ELSE filter(self, filterCondition)

\* The new dataframe is validated first and stored only when it is valid
df_setter_ValidatesFirst(self, new_df) ==
    IF validate_schema(new_df.schema, self._schema) = "valid"
    THEN [raised |-> "none", instance |-> NoDataset, self |-> [self EXCEPT !._df = new_df]]
    ELSE [raised |-> "ValueError", instance |-> NoDataset, self |-> self]

\* Dataset.df setter: self._df = new_df, then self.validate_schema()
df_setter(self, new_df) ==
    LET stored == [self EXCEPT !._df = new_df]
    IN [raised |-> IF validate_schema(stored._df.schema, stored._schema) = "valid"
                   THEN "none" ELSE "ValueError",
        instance |-> NoDataset,
        self |-> stored]

\* Dataframes assigned through the setter: one of the class's schema, one
\* that lacks its required fields, one with a field of another type
SetterFrames(cls) ==
    { DataFrame(get_schema(cls), SampleRows),
      DataFrame(<<>>, SampleRows),
      DataFrame(<< [name |-> "studyId", dataType |-> "DoubleType", nullable |-> TRUE] >>,
                EmptyBag) }

\* self.df = new_df; return self
rebind(self, new_df) ==
    LET done == df_setter(self, new_df)
    IN [raised |-> done.raised,
        instance |-> IF done.raised = "none" THEN done.self ELSE NoDataset,
        self |-> done.self,
        returns_self |-> done.raised = "none"]

\* Dataset.drop_infinity_values(*cols): ~(c1.isin(inf) | c2.isin(inf) | ...)
drop_infinity_values(self, cols) ==
    LET names == {cols[k] : k \in DOMAIN cols}
    IN IF Len(cols) = 0
       THEN [raised |-> "none", instance |-> self, self |-> self, returns_self |-> TRUE]
       ELSE IF ~(names \subseteq FieldNames(self._df.schema))
       THEN [raised |-> "AnalysisException", instance |-> NoDataset, self |-> self,
             returns_self |-> FALSE]
       ELSE rebind(self, DataFrameFilter(self._df,
                                         [kind |-> "not_isin_infinity", cols |-> names]))

\* A new instance is returned and the receiver keeps its dataframe
persist_ReturnsNew(self) ==
    LET made == class_constructor(self.cls, [self._df EXCEPT !.persisted = TRUE],
                                  self._schema)
    IN [raised |-> made.raised, instance |-> made.instance, self |-> self,
        returns_self |-> FALSE]

\* Dataset.persist
persist(self) == rebind(self, [self._df EXCEPT !.persisted = TRUE])

\* Dataset.unpersist
unpersist(self) == rebind(self, [self._df EXCEPT !.persisted = FALSE])

\* Dataset.coalesce: never more partitions than before
coalesce(self, num_partitions) ==
    rebind(self, [self._df EXCEPT !.num_partitions =
                      IF num_partitions < @ THEN num_partitions ELSE @])

\* Dataset.repartition
repartition(self, num_partitions) ==
    rebind(self, [self._df EXCEPT !.num_partitions = num_partitions])

ColumnLists == { <<>>, <<"beta">> }

NumPartitions == {1, 2}

InvalidFlagLists ==
    { <<>>, <<"DUPLICATED_STUDY">>, <<"UNKNOWN_STUDY_TYPE">>,
      <<"DUPLICATED_STUDY", "UNKNOWN_STUDY_TYPE">>, <<"NOT_A_FLAG">> }

NoCall ==
    [op |-> "none", cls |-> NoneName, df |-> NoDataFrame, receiver |-> NoDataset,
     condition |-> NoCondition, invalid_flags |-> <<>>, invalid |-> FALSE,
     cols |-> <<>>, num_partitions |-> 0, returned_self |-> FALSE]

\* from_gnomad is not running
NoFromGnomad ==
    /\ ld_populations = <<>>
    /\ storage = <<>>
    /\ min_r2 = 7000
    /\ schema = ResolvedSchema
    /\ pc = "done"
    /\ pop_i = 1
    /\ ld_matrix = EmptyBag
    /\ ld_index = EmptyBag
    /\ pop_ld_index = EmptyBag
    /\ ld_indices = <<>>
    /\ diagnostics = <<>>
    /\ outcome = "running"
    /\ result = EmptyBag

NoDatasetCall ==
    /\ dataset = NoDataset
    /\ new_dataset = NoDataset
    /\ raised = "none"
    /\ call = NoCall

\* cls(_df=df, _schema=cls.get_schema()), as from_parquet does
Construct ==
    /\ call = NoCall
    /\ \E cls \in Classes : \E df \in DataFrames(cls) :
           LET made == class_constructor(cls, df, get_schema(cls))
           IN /\ dataset' = made.instance
              /\ raised' = made.raised
              /\ call' = [NoCall EXCEPT !.op = "init", !.cls = cls, !.df = df]
    /\ new_dataset' = NoDataset
    /\ UNCHANGED <<ldvars, dagvars, gsvars>>

\* dataset.filter(condition)
CallFilter ==
    /\ dataset # NoDataset
    /\ \E condition \in Conditions :
           LET done == filter(dataset, condition)
           IN /\ dataset' = done.self
              /\ new_dataset' = done.instance
              /\ raised' = done.raised
              /\ call' = [NoCall EXCEPT !.op = "filter", !.receiver = dataset,
                                        !.condition = condition]
    /\ UNCHANGED <<ldvars, dagvars, gsvars>>

\* dataset.valid_rows(invalid_flags, invalid)
CallValidRows ==
    /\ dataset # NoDataset
    /\ \E invalid_flags \in InvalidFlagLists, invalid \in BOOLEAN :
           LET done == valid_rows(dataset, invalid_flags, invalid)
           IN /\ dataset' = done.self
              /\ new_dataset' = done.instance
              /\ raised' = done.raised
              /\ call' = [NoCall EXCEPT !.op = "valid_rows", !.receiver = dataset,
                                        !.invalid_flags = invalid_flags,
                                        !.invalid = invalid]
    /\ UNCHANGED <<ldvars, dagvars, gsvars>>

\* dataset.df = new_df
SetDf ==
    /\ dataset # NoDataset
    /\ \E new_df \in SetterFrames(dataset.cls) :
           LET done == df_setter(dataset, new_df)
           IN /\ dataset' = done.self
              /\ new_dataset' = done.instance
              /\ raised' = done.raised
              /\ call' = [NoCall EXCEPT !.op = "df.setter", !.receiver = dataset,
                                        !.df = new_df]
    /\ UNCHANGED <<ldvars, dagvars, gsvars>>

\* What a call that works on the receiver itself leaves behind
InPlace(op, num_partitions, done) ==
    /\ dataset' = done.self
    /\ new_dataset' = done.instance
    /\ raised' = done.raised
    /\ call' = [NoCall EXCEPT !.op = op, !.receiver = dataset,
                              !.num_partitions = num_partitions,
                              !.returned_self = done.returns_self]

\* dataset.drop_infinity_values(*cols)
CallDropInfinityValues ==
    /\ dataset # NoDataset
    /\ \E cols \in ColumnLists :
           LET done == drop_infinity_values(dataset, cols)
           IN /\ dataset' = done.self
              /\ new_dataset' = done.instance
              /\ raised' = done.raised
              /\ call' = [NoCall EXCEPT !.op = "drop_infinity_values",
                                        !.receiver = dataset, !.cols = cols,
                                        !.returned_self = done.returns_self]
    /\ UNCHANGED <<ldvars, dagvars, gsvars>>

\* dataset.persist()
CallPersist ==
    /\ dataset # NoDataset
    /\ InPlace("persist", 0, persist(dataset))
    /\ UNCHANGED <<ldvars, dagvars, gsvars>>

\* dataset.unpersist()
CallUnpersist ==
    /\ dataset # NoDataset
    /\ InPlace("unpersist", 0, unpersist(dataset))
    /\ UNCHANGED <<ldvars, dagvars, gsvars>>

\* dataset.coalesce(num_partitions)
CallCoalesce ==
    /\ dataset # NoDataset
    /\ \E n \in NumPartitions :
           InPlace("coalesce", n, coalesce(dataset, n))
    /\ UNCHANGED <<ldvars, dagvars, gsvars>>

\* dataset.repartition(num_partitions)
CallRepartition ==
    /\ dataset # NoDataset
    /\ \E n \in NumPartitions :
           InPlace("repartition", n, repartition(dataset, n))
    /\ UNCHANGED <<ldvars, dagvars, gsvars>>

\* The caller goes on with the returned instance: dataset = dataset.filter(...)
Rebind ==
    /\ new_dataset # NoDataset
    /\ dataset' = new_dataset
    /\ new_dataset' = NoDataset
    /\ raised' = "none"
    /\ call' = [NoCall EXCEPT !.op = "rebind"]
    /\ UNCHANGED <<ldvars, dagvars, gsvars>>

NextDataset ==
    \/ Construct
    \/ CallFilter
    \/ CallValidRows
    \/ SetDf
    \/ CallDropInfinityValues
    \/ CallPersist
    \/ CallUnpersist
    \/ CallCoalesce
    \/ CallRepartition
    \/ Rebind

\* No from_gnomad run: its variables stay as they are
InitDataset ==
    /\ NoDatasetCall
    /\ NoFromGnomad
    /\ NoDagFile
    /\ NoGoldStandard

SpecDataset == InitDataset /\ [][NextDataset]_vars

\* ---------------------------------------------------------- from_gnomad ---
InitFrom(populations, storages, schemas) ==
    /\ ld_populations = populations
    /\ storage \in [{populations[k] : k \in DOMAIN populations} -> storages]
    /\ min_r2 \in MinR2Values
    /\ schema \in schemas
    /\ pc = IF populations = <<>> THEN "reduce" ELSE "matrix"
    /\ pop_i = 1
    /\ ld_matrix = EmptyBag
    /\ ld_index = EmptyBag
    /\ pop_ld_index = EmptyBag
    /\ ld_indices = <<>>
    /\ diagnostics = <<>>
    /\ outcome = "running"
    /\ result = EmptyBag
    /\ NoDatasetCall
    /\ NoDagFile
    /\ NoGoldStandard

\* from_gnomad over up to MaxPops populations
Init == \E n \in 0..MaxPops : InitFrom(SubSeq(PopulationNames, 1, n), SampleStorages, LdIndexSchemas)

\* from_gnomad over one population, with every storage content and an
\* ld_index.json that lists the columns produced
InitPop == InitFrom(<<"EUR">>, PopStorages, {ResolvedSchema})

pop == ld_populations[pop_i]

\* the for loop moves to the next population, or leaves the loop
NextPopulation ==
    /\ pop_i' = pop_i + 1
    /\ pc' = IF pop_i < Len(ld_populations) THEN "matrix" ELSE "reduce"

\* BlockMatrix.read(ld_matrix_path) and _convert_ld_matrix_to_table
ConvertLdMatrixToTable ==
    /\ pc = "matrix"
    /\ storage[pop].fault # "matrix"
    /\ ld_matrix' = _convert_ld_matrix_to_table(storage[pop].block_matrix, min_r2)
    /\ ld_index' = EmptyBag
    /\ pop_ld_index' = EmptyBag
    /\ pc' = "index"
    /\ UNCHANGED <<ld_populations, min_r2, storage, schema, pop_i, ld_indices,
                   diagnostics, outcome, result>>
    /\ UNCHANGED <<dsvars, dagvars, gsvars>>

\* hl.read_table(ld_index_raw_path) and _process_variant_indices
ProcessVariantIndices ==
    /\ pc = "index"
    /\ storage[pop].fault \notin {"index", "chain"}
    /\ ld_index' = _process_variant_indices(storage[pop].ld_index_raw)
    /\ pc' = "resolve"
    /\ UNCHANGED <<ld_populations, min_r2, storage, schema, pop_i, ld_matrix,
                   pop_ld_index, ld_indices, diagnostics, outcome, result>>
    /\ UNCHANGED <<dsvars, dagvars, gsvars>>

\* return LDIndex._resolve_variant_indices(ld_index, ld_matrix)
ResolveVariantIndices ==
    /\ pc = "resolve"
    /\ pop_ld_index' = _resolve_variant_indices(ld_index, ld_matrix)
    /\ pc' = "append"
    /\ UNCHANGED <<ld_populations, min_r2, storage, schema, pop_i, ld_matrix,
                   ld_index, ld_indices, diagnostics, outcome, result>>
    /\ UNCHANGED <<dsvars, dagvars, gsvars>>

\* ld_indices.append(pop_ld_index)
AppendLdIndex ==
    /\ pc = "append"
    /\ ld_indices' = Append(ld_indices, pop_ld_index)
    /\ NextPopulation
    /\ UNCHANGED <<ld_populations, min_r2, storage, schema, ld_matrix, ld_index,
                   pop_ld_index, diagnostics, outcome, result>>
    /\ UNCHANGED <<dsvars, dagvars, gsvars>>

\* The except branch ends the loop: the populations after the failed one are
\* not processed
PopulationFails_Break ==
    /\ \/ pc = "matrix" /\ storage[pop].fault = "matrix"
       \/ pc = "index" /\ storage[pop].fault \in {"index", "chain"}
    /\ diagnostics' = Append(diagnostics, [population |-> pop, error |-> storage[pop].fault])
    /\ ld_matrix' = EmptyBag
    /\ ld_index' = EmptyBag
    /\ pop_i' = pop_i + 1
    /\ pc' = "reduce"
    /\ UNCHANGED <<ld_populations, min_r2, storage, schema, pop_ld_index,
                   ld_indices, outcome, result>>
    /\ UNCHANGED <<dsvars, dagvars, gsvars>>

\* The except branch swallows the exception without printing
PopulationFails_Silent ==
    /\ \/ pc = "matrix" /\ storage[pop].fault = "matrix"
       \/ pc = "index" /\ storage[pop].fault \in {"index", "chain"}
    /\ ld_matrix' = EmptyBag
    /\ ld_index' = EmptyBag
    /\ NextPopulation
    /\ UNCHANGED <<ld_populations, min_r2, storage, schema, pop_ld_index,
                   ld_indices, diagnostics, outcome, result>>
    /\ UNCHANGED <<dsvars, dagvars, gsvars>>

\* A read raises inside the try block: except Exception prints and the loop
\* goes on
PopulationFails ==
    /\ \/ pc = "matrix" /\ storage[pop].fault = "matrix"
       \/ pc = "index" /\ storage[pop].fault \in {"index", "chain"}
    /\ diagnostics' = Append(diagnostics, [population |-> pop, error |-> storage[pop].fault])
    /\ ld_matrix' = EmptyBag
    /\ ld_index' = EmptyBag
    /\ NextPopulation
    /\ UNCHANGED <<ld_populations, min_r2, storage, schema, pop_ld_index,
                   ld_indices, outcome, result>>
    /\ UNCHANGED <<dsvars, dagvars, gsvars>>

RECURSIVE Reduce(_)
\* reduce(lambda x, y: x.unionByName(y), frames) for a non-empty list
Reduce(frames) ==
    IF Len(frames) = 1 THEN frames[1]
    ELSE UnionByName(Reduce(SubSeq(frames, 1, Len(frames) - 1)), frames[Len(frames)])

\* The union does not wait for the populations still to be processed
Aggregate_Early ==
    /\ pc = "reduce" \/ (pc = "matrix" /\ pop_i > 1)
    /\ pc' = "done"
    /\ IF ld_indices = <<>>
       THEN outcome' = "TypeError" /\ result' = EmptyBag
       ELSE IF validate_schema(ResolvedSchema, schema) = "valid"
            THEN /\ outcome' = "returned"
                 /\ result' = _aggregate_ld_index_across_populations(Reduce(ld_indices))
            ELSE outcome' = "ValueError" /\ result' = EmptyBag
    /\ UNCHANGED <<ld_populations, min_r2, storage, schema, pop_i, ld_matrix,
                   ld_index, pop_ld_index, ld_indices, diagnostics>>
    /\ UNCHANGED <<dsvars, dagvars, gsvars>>

\* The ValueError of validate_schema is caught like a population's failure:
\* a line is printed and the LDIndex is returned all the same
Aggregate_CatchesValueError ==
    /\ pc = "reduce"
    /\ pc' = "done"
    /\ IF ld_indices = <<>>
       THEN outcome' = "TypeError" /\ result' = EmptyBag /\ UNCHANGED diagnostics
       ELSE /\ outcome' = "returned"
            /\ result' = _aggregate_ld_index_across_populations(Reduce(ld_indices))
            /\ diagnostics' =
                   IF validate_schema(ResolvedSchema, schema) = "valid"
                   THEN diagnostics
                   ELSE Append(diagnostics, [population |-> "", error |-> "ValueError"])
    /\ UNCHANGED <<ld_populations, min_r2, storage, schema, pop_i, ld_matrix,
                   ld_index, pop_ld_index, ld_indices>>
    /\ UNCHANGED <<dsvars, dagvars, gsvars>>

\* reduce(...) and cls(_df=...), whose __post_init__ validates the schema
Aggregate ==
    /\ pc = "reduce"
    /\ pc' = "done"
    /\ IF ld_indices = <<>>
       THEN outcome' = "TypeError" /\ result' = EmptyBag
       ELSE IF validate_schema(ResolvedSchema, schema) = "valid"
            THEN /\ outcome' = "returned"
                 /\ result' = _aggregate_ld_index_across_populations(Reduce(ld_indices))
            ELSE outcome' = "ValueError" /\ result' = EmptyBag
    /\ UNCHANGED <<ld_populations, min_r2, storage, schema, pop_i, ld_matrix,
                   ld_index, pop_ld_index, ld_indices, diagnostics>>
    /\ UNCHANGED <<dsvars, dagvars, gsvars>>

Next ==
    \/ ConvertLdMatrixToTable
    \/ ProcessVariantIndices
    \/ ResolveVariantIndices
    \/ AppendLdIndex
    \/ PopulationFails
    \/ Aggregate

Spec == Init /\ [][Next]_vars

SpecPop == InitPop /\ [][Next]_vars

\* ------------------------------------------------------ dag_genetics_etl ---
CLUSTER_NAME == "workflow-otg-cluster"

StepIds == {"variant_index", "ld_index", "study_locus"}

\* A step's "prerequisites" key: a list of step ids, [] when the key is absent
PrerequisiteLists ==
    {p \in UNION {[1..n -> StepIds] : n \in 0..MaxPrerequisites} :
        \A i, j \in DOMAIN p : p[i] = p[j] => i = j}

\* The parsed YAML: a list of steps, every id given once
DagConfigs ==
    {c \in UNION {[1..n -> [id : StepIds, prerequisites : PrerequisiteLists]] : n \in 0..MaxSteps} :
        \A i, j \in DOMAIN c : c[i].id = c[j].id => i = j}

\* The operators of common_airflow: one task per call, named after the step
submit_step(cluster_name, step_id) == [task_id |-> step_id, cluster_name |-> cluster_name]

create_cluster(cluster_name) == [task_id |-> "create_cluster", cluster_name |-> cluster_name]

install_dependencies(cluster_name) == [task_id |-> "install_dependencies", cluster_name |-> cluster_name]

delete_cluster(cluster_name) == [task_id |-> "delete_cluster", cluster_name |-> cluster_name]

\* The rules that say when the scheduler may start a task.  The operators are
\* built in common_airflow, so a task may carry either rule: both wait until
\* every upstream task is finished.
TriggerRules == {"all_success", "all_done"}

\* task.set_upstream(other) with the edges reversed
set_upstream_Reversed(edges, task, other) == edges \cup {<<other, task>>}

\* task.set_upstream(other): other becomes an upstream task of task.  A task
\* given as its own upstream is accepted like any other.
set_upstream(edges, task, other) == edges \cup {<<task, other>>}

\* list(tasks.values())
TaskValues(task_dict) == {task_dict[k] : k \in DOMAIN task_dict}

\* a >> b >> [t1, ..., tn] >> d : each operand is set upstream of the next one;
\* a list stands for each of its tasks, an empty list for none
chain(edges, task_dict) ==
    LET first == set_upstream(edges, install_dependencies(CLUSTER_NAME), create_cluster(CLUSTER_NAME))
        into == {<<t, install_dependencies(CLUSTER_NAME)>> : t \in TaskValues(task_dict)}
        out == {<<delete_cluster(CLUSTER_NAME), t>> : t \in TaskValues(task_dict)}
    IN  first \cup into \cup out

DagTasks(task_dict) ==
    TaskValues(task_dict)
        \cup {create_cluster(CLUSTER_NAME), install_dependencies(CLUSTER_NAME), delete_cluster(CLUSTER_NAME)}

UpstreamOf(edges, task) == {e[2] : e \in {x \in edges : x[1] = task}}

\* Tasks reachable from the tasks of S along upstream edges, S included
RECURSIVE UpstreamClosure(_, _)
UpstreamClosure(edges, S) ==
    LET more == S \cup UNION {UpstreamOf(edges, t) : t \in S}
    IN  IF more = S THEN S ELSE UpstreamClosure(edges, more)

HasCycle(edges) ==
    \E e \in edges : e[1] \in UpstreamClosure(edges, {e[2]})

InitDag ==
    /\ NoFromGnomad
    /\ NoDatasetCall
    /\ NoGoldStandard
    /\ steps \in DagConfigs
    /\ tasks = <<>>
    /\ upstream = {}
    /\ dag_pc = "step"
    /\ step_i = 1
    /\ prerequisite_i = 1
    /\ task_state = <<>>

\* lines 40-46: step_id = step["id"]; this_task = submit_step(...);
\* tasks[step_id] = this_task
DefineTask ==
    /\ dag_pc = "step"
    /\ step_i <= Len(steps)
    /\ LET step_id == steps[step_i].id
           this_task == submit_step(CLUSTER_NAME, step_id)
       IN  tasks' = (step_id :> this_task) @@ tasks
    /\ prerequisite_i' = 1
    /\ dag_pc' = "prerequisites"
    /\ UNCHANGED <<steps, upstream, step_i, task_state>>
    /\ UNCHANGED <<ldvars, dsvars, gsvars>>

\* lines 47-48: this_task.set_upstream(tasks[prerequisite]); the dict lookup
\* raises KeyError for an id that is not a key
SetUpstream ==
    /\ dag_pc = "prerequisites"
    /\ prerequisite_i <= Len(steps[step_i].prerequisites)
    /\ LET this_task == tasks[steps[step_i].id]
           prerequisite == steps[step_i].prerequisites[prerequisite_i]
       IN  IF prerequisite \in DOMAIN tasks
           THEN /\ upstream' = set_upstream(upstream, this_task, tasks[prerequisite])
                /\ prerequisite_i' = prerequisite_i + 1
                /\ dag_pc' = dag_pc
           ELSE /\ dag_pc' = "KeyError"
                /\ UNCHANGED <<upstream, prerequisite_i>>
    /\ UNCHANGED <<steps, tasks, step_i, task_state>>
    /\ UNCHANGED <<ldvars, dsvars, gsvars>>

\* the inner loop is exhausted: next step of the config
NextStep ==
    /\ dag_pc = "prerequisites"
    /\ prerequisite_i > Len(steps[step_i].prerequisites)
    /\ step_i' = step_i + 1
    /\ dag_pc' = "step"
    /\ UNCHANGED <<steps, tasks, upstream, prerequisite_i, task_state>>
    /\ UNCHANGED <<ldvars, dsvars, gsvars>>

\* lines 51-56, after the last step: the cluster tasks around the step tasks
ChainTasks ==
    /\ dag_pc = "step"
    /\ step_i > Len(steps)
    /\ upstream' = chain(upstream, tasks)
    /\ task_state' = [t \in DagTasks(tasks) |-> "none"]
    /\ dag_pc' = "built"
    /\ UNCHANGED <<steps, tasks, step_i, prerequisite_i>>
    /\ UNCHANGED <<ldvars, dsvars, gsvars>>

Finished == {"success", "failed", "upstream_failed"}

\* The scheduler starts a task whose upstream tasks are all finished and
\* whose trigger rule is met; the task succeeds or fails.  A DAG with a cycle
\* is refused when it is loaded and never runs.
RunTask(task) ==
    /\ dag_pc = "built"
    /\ ~HasCycle(upstream)
    /\ task_state[task] = "none"
    /\ \A u \in UpstreamOf(upstream, task) : task_state[u] \in Finished
    /\ \E rule \in TriggerRules :
           rule = "all_success" => \A u \in UpstreamOf(upstream, task) : task_state[u] = "success"
    /\ \E state \in {"success", "failed"} :
           task_state' = [task_state EXCEPT ![task] = state]
    /\ UNCHANGED <<steps, tasks, upstream, dag_pc, step_i, prerequisite_i>>
    /\ UNCHANGED <<ldvars, dsvars, gsvars>>

\* A task with rule all_success one of whose upstream tasks did not succeed
\* is not run
MarkUpstreamFailed(task) ==
    /\ dag_pc = "built"
    /\ ~HasCycle(upstream)
    /\ task_state[task] = "none"
    /\ "all_success" \in TriggerRules
    /\ \A u \in UpstreamOf(upstream, task) : task_state[u] \in Finished
    /\ \E u \in UpstreamOf(upstream, task) : task_state[u] # "success"
    /\ task_state' = [task_state EXCEPT ![task] = "upstream_failed"]
    /\ UNCHANGED <<steps, tasks, upstream, dag_pc, step_i, prerequisite_i>>
    /\ UNCHANGED <<ldvars, dsvars, gsvars>>

NextDag ==
    \/ DefineTask
    \/ SetUpstream
    \/ NextStep
    \/ ChainTasks
    \/ \E task \in DOMAIN task_state : RunTask(task)
    \/ \E task \in DOMAIN task_state : MarkUpstreamFailed(task)

SpecDag == InitDag /\ [][NextDag]_vars

\* ---------------------------------------------------- l2g_gold_standard ---
LOCUS_TO_GENE_WINDOW == 500000

GS_POSITIVE_LABEL == "positive"

GS_NEGATIVE_LABEL == "negative"

\* A NULL distance (distances are >= 0)
NullDistance == 0 - 1

Distances == {0, LOCUS_TO_GENE_WINDOW, LOCUS_TO_GENE_WINDOW + 1}

GeneIds == {"G1", "G2"}

\* Rows of the positive set: one per studyLocusId, variantId and geneId (the
\* groupBy of parse_positive_curation); studyLocusId is a hash of studyId and
\* variantId.  The studyId and sources columns pass through untouched.
PositiveRows ==
    [studyLocusId : {"L1"}, variantId : {"V1"}, geneId : GeneIds]
        \cup [studyLocusId : {"L2"}, variantId : {"V2"}, geneId : GeneIds]

PositiveSets == {SetToBag(S) : S \in SubsetsUpTo(PositiveRows, MaxRows)}

\* Rows of v2g.df: the distance between the variant and the gene's TSS is NULL
\* for evidence that is not a distance
V2GRows == [variantId : {"V1", "V2"}, geneId : GeneIds, distance : Distances \cup {NullDistance}]

V2GFrames == {SetToBag(S) : S \in SubsetsUpTo(V2GRows, MaxRows)}

\* v2g.df.selectExpr("variantId", "geneId as non_curated_geneId", "distance")
\*     .filter(f.col("distance") <= LOCUS_TO_GENE_WINDOW)
GenesInWindow(v2g_df) ==
    LET selected == BagMap(v2g_df, [x \in DOMAIN v2g_df |->
                        [variantId |-> x.variantId, non_curated_geneId |-> x.geneId,
                         distance |-> x.distance]])
    IN  BagFilter(selected, {x \in DOMAIN selected :
                                x.distance # NullDistance /\ x.distance <= LOCUS_TO_GENE_WINDOW})

\* The right side of a left join row that found no match
NoMatch == [variantId |-> NullId, non_curated_geneId |-> NullId, distance |-> NullDistance]

\* left.join(right, on="variantId", how="left"): a bag of pairs <<left row,
\* right row>>, the right row being NoMatch for a left row without a match
LeftJoinOnVariantId(left, right) ==
    LET matches(p) == {m \in DOMAIN right : m.variantId = p.variantId}
        pairs == {<<p, m>> : p \in DOMAIN left, m \in DOMAIN right} \cup {<<p, NoMatch>> : p \in DOMAIN left}
        joined == {pr \in pairs : IF matches(pr[1]) = {} THEN pr[2] = NoMatch ELSE pr[2] \in matches(pr[1])}
    IN  [pr \in joined |-> IF pr[2] = NoMatch THEN left[pr[1]] ELSE left[pr[1]] * right[pr[2]]]

\* lines 76-102
expand_gold_standard_with_negatives(positive_df, v2g_df) ==
    LET renamed == BagMap(positive_df, [x \in DOMAIN positive_df |->
                       [studyLocusId |-> x.studyLocusId, variantId |-> x.variantId,
                        curated_geneId |-> x.geneId]])
        joined == LeftJoinOnVariantId(renamed, GenesInWindow(v2g_df))
        goldStandardSet(pr) ==
            IF pr[2].non_curated_geneId = NullId
                   \/ pr[1].curated_geneId = pr[2].non_curated_geneId
            THEN GS_POSITIVE_LABEL ELSE GS_NEGATIVE_LABEL
        geneId(pr) ==
            IF goldStandardSet(pr) = GS_POSITIVE_LABEL
            THEN pr[1].curated_geneId ELSE pr[2].non_curated_geneId
    IN  BagMap(joined, [pr \in DOMAIN joined |->
            [studyLocusId |-> pr[1].studyLocusId, variantId |-> pr[1].variantId,
             goldStandardSet |-> goldStandardSet(pr), geneId |-> geneId(pr)]])

InitGoldStandard ==
    /\ NoFromGnomad
    /\ NoDatasetCall
    /\ NoDagFile
    /\ positive_set \in PositiveSets
    /\ v2g \in V2GFrames
    /\ gold_standard = EmptyBag
    /\ gs_pc = "call"

ExpandGoldStandard ==
    /\ gs_pc = "call"
    /\ gold_standard' = expand_gold_standard_with_negatives(positive_set, v2g)
    /\ gs_pc' = "returned"
    /\ UNCHANGED <<positive_set, v2g>>
    /\ UNCHANGED <<ldvars, dsvars, dagvars>>

NextGoldStandard == ExpandGoldStandard

SpecGoldStandard == InitGoldStandard /\ [][NextGoldStandard]_vars

\* ============================================================== claims ===
\* The triangular table handed to _transpose_ld_matrix for the current
\* population
SymmetrizerInput == ThresholdedTable(storage[pop].block_matrix, min_r2)

\* C1: for every triangular input of the symmetrizer and every input entry
\* (i, j, r) with i < j, the output holds both (i, j, r) and (j, i, r).
C1_BothOrientations ==
    pc = "index" =>
        \A e \in DOMAIN SymmetrizerInput :
            e.i < e.j =>
                /\ BagIn(e, ld_matrix)
                /\ BagIn([i |-> e.j, j |-> e.i, r |-> e.r], ld_matrix)

\* C2: for every triangular input of the symmetrizer, each diagonal input
\* entry (i, i, r) occurs exactly once in the output.
C2_DiagonalOnce ==
    pc = "index" =>
        \A e \in DOMAIN SymmetrizerInput :
            e.i = e.j => CopiesIn(e, ld_matrix) = 1

\* C3: an entry with r*r < min_r2 never appears in the table produced by
\* _convert_ld_matrix_to_table, in a population's resolved frame or in the
\* LDIndex from_gnomad returns: every entry there has r*r >= min_r2.
C3_ThresholdHolds ==
    /\ \A e \in DOMAIN ld_matrix : e.r * e.r >= min_r2
    /\ \A e \in DOMAIN pop_ld_index : e.r * e.r >= min_r2
    /\ \A k \in DOMAIN ld_indices : \A e \in DOMAIN ld_indices[k] : e.r * e.r >= min_r2
    /\ \A e \in DOMAIN result : e.r * e.r >= min_r2

\* C3 witness: a returned LDIndex with an entry, built from a matrix that
\* also stored an entry below the threshold
C3_Witness ==
    /\ outcome = "returned"
    /\ result # EmptyBag
    /\ \E p \in DOMAIN storage :
           \E e \in DOMAIN storage[p].block_matrix : e.entry * e.entry < min_r2

\* C4: _resolve_variant_indices is an inner join on both coordinates: every
\* output record has its row index and its column index resolved to a
\* variantId of the population's variant index.
C4_InnerJoinBoth ==
    pc = "append" =>
        \A y \in DOMAIN pop_ld_index :
            /\ \E x \in DOMAIN ld_index : x.idx = y.i /\ x.variantId = y.variantId_i
            /\ \E x \in DOMAIN ld_index : x.idx = y.j /\ x.variantId = y.variantId_j

\* C5: if two distinct idx values of the raw variant table resolve to the
\* same variantId, neither idx (as row or as column) nor that variantId
\* appears in a resolved entry of that population.
C5_AmbiguousAbsent ==
    pc = "append" =>
        LET derived == DOMAIN DerivedVariantIds(storage[pop].ld_index_raw)
        IN \A a, b \in derived :
               (a.idx # b.idx /\ a.variantId = b.variantId) =>
                   \A y \in DOMAIN pop_ld_index :
                       /\ y.i \notin {a.idx, b.idx}
                       /\ y.j \notin {a.idx, b.idx}
                       /\ y.variantId_i # a.variantId
                       /\ y.variantId_j # a.variantId

\* C6: the variant index _process_variant_indices returns is exactly the
\* raw rows whose lift succeeded and whose variantId no other idx shares: no
\* two surviving rows share a variantId, every survivor is such a row, and
\* every such row survives.
C6_ExactlyUnambiguous ==
    pc \in {"resolve", "append"} =>
        LET raw == DOMAIN storage[pop].ld_index_raw
            Lift(row) == grch37_to_grch38_chain(row.contig, row.position)
            Lifted(row) == IsNotNull(Lift(row).position)
            Vid(row) == VariantId(StripChr(Lift(row).contig),
                                  convert_gnomad_position_to_ensembl(
                                      Lift(row).position, row.alleles[1], row.alleles[2]),
                                  row.alleles)
            Shared(row) == \E o \in raw : o.idx # row.idx /\ Lifted(o) /\ Vid(o) = Vid(row)
        IN /\ \A x, y \in DOMAIN ld_index : x.variantId = y.variantId => x.idx = y.idx
           /\ \A x \in DOMAIN ld_index :
                  /\ ld_index[x] = 1
                  /\ \E row \in raw : /\ row.idx = x.idx
                                      /\ Lifted(row)
                                      /\ ~Shared(row)
                                      /\ x.variantId = Vid(row)
           /\ \A row \in raw :
                  (Lifted(row) /\ ~Shared(row)) =>
                      \E x \in DOMAIN ld_index : x.idx = row.idx /\ x.variantId = Vid(row)

\* C6 witness: a raw table with two idx on one variantId and a surviving row
C6_Witness ==
    /\ pc = "resolve"
    /\ ld_index # EmptyBag
    /\ \E a, b \in DOMAIN DerivedVariantIds(storage[pop].ld_index_raw) :
           a.idx # b.idx /\ a.variantId = b.variantId

\* C7: a raw row whose locus fails to lift is dropped from the population's
\* variant index, and that makes neither the population fail nor a failure
\* diagnostic appear: every population with readable inputs yields its
\* frame.
C7_LiftFailureIsNotAnError ==
    /\ pc \in {"resolve", "append"} =>
           \A row \in DOMAIN storage[pop].ld_index_raw :
               ~IsNotNull(grch37_to_grch38_chain(row.contig, row.position).position)
                   => \A x \in DOMAIN ld_index : x.idx # row.idx
    /\ \A k \in DOMAIN diagnostics : storage[diagnostics[k].population].fault # "none"
    /\ pc \in {"matrix", "reduce", "done"} =>
           Len(ld_indices) =
               Cardinality({k \in 1..(pop_i - 1) : storage[ld_populations[k]].fault = "none"})

\* C7 witness: a population finished without diagnostic, one of its rows
\* unlifted, another one in its variant index
C7_Witness ==
    /\ pc = "done"
    /\ diagnostics = <<>>
    /\ ld_index # EmptyBag
    /\ \E row \in DOMAIN storage[ld_populations[1]].ld_index_raw :
           ~IsNotNull(grch37_to_grch38_chain(row.contig, row.position).position)

\* C8: in the per-population result, for every record with variantId pair
\* (a, b), a # b, and correlation r, the record with pair (b, a) and the same
\* r is present too, and every self-pair (a, a) is present exactly once.
C8_SymmetricResult ==
    pc = "append" =>
        \A y \in DOMAIN pop_ld_index :
            IF y.variantId_i # y.variantId_j
            THEN \E z \in DOMAIN pop_ld_index :
                     /\ z.variantId_i = y.variantId_j
                     /\ z.variantId_j = y.variantId_i
                     /\ z.r = y.r
            ELSE SumOver(pop_ld_index,
                         {z \in DOMAIN pop_ld_index :
                             /\ z.variantId_i = y.variantId_i
                             /\ z.variantId_j = y.variantId_j}) = 1

\* C9: when some population fails and another succeeds, from_gnomad does not
\* raise for it (an ld_index.json the frame conforms to given), every listed
\* population has been processed, and the returned LDIndex holds exactly the
\* rows of the succeeded populations.
C9_FailureIsolated ==
    LET names == {ld_populations[k] : k \in DOMAIN ld_populations}
        failed == {p \in names : storage[p].fault # "none"}
        succeeded == names \ failed
        frame == [p \in succeeded |-> _create_ldindex_for_population(storage[p], min_r2)]
        rows == DOMAIN result \cup UNION {DOMAIN frame[p] : p \in succeeded}
    IN (/\ pc = "done"
        /\ failed # {}
        /\ succeeded # {}
        /\ validate_schema(ResolvedSchema, schema) = "valid") =>
           /\ outcome = "returned"
           /\ Len(diagnostics) = Cardinality(failed)
           /\ Len(ld_indices) = Cardinality(succeeded)
           /\ \A y \in rows :
                  CopiesIn(y, result) =
                      SumOver([p \in succeeded |-> CopiesIn(y, frame[p])], succeeded)

\* C9 witness: the first population failed, a later one succeeded, and an
\* LDIndex with rows was returned
C9_Witness ==
    /\ pc = "done"
    /\ outcome = "returned"
    /\ result # EmptyBag
    /\ Len(ld_populations) >= 2
    /\ storage[ld_populations[1]].fault # "none"

\* C10: when every population of a non-empty list fails, from_gnomad fails
\* with the dedicated NoPopulationsSucceededError.
C10_NoPopulationsSucceededError ==
    (/\ pc = "done"
     /\ ld_populations # <<>>
     /\ \A k \in DOMAIN ld_populations : storage[ld_populations[k]].fault # "none") =>
        outcome = "NoPopulationsSucceededError"

\* C11: from_gnomad records exactly one failure diagnostic for each
\* population whose pipeline failed, naming that population and the failure,
\* and none for a population that produced its frame, whatever rows that
\* population lost on the way.
C11_OneDiagnosticPerFailure ==
    \A k \in 1..(pop_i - 1) :
        LET p == ld_populations[k]
            about == {d \in DOMAIN diagnostics : diagnostics[d].population = p}
        IN IF storage[p].fault # "none"
           THEN /\ Cardinality(about) = 1
                /\ \A d \in about : diagnostics[d].error = storage[p].fault
           ELSE about = {}

\* C11 witness: one population failed and has its diagnostic, another one
\* produced a frame from which the lift, the ambiguity filter or the joins
\* removed rows, and has none
C11_Witness ==
    /\ pc = "done"
    /\ Len(diagnostics) = 1
    /\ \E k \in DOMAIN ld_populations :
           LET s == storage[ld_populations[k]]
           IN /\ s.fault = "none"
              /\ \E row \in DOMAIN s.ld_index_raw :
                     \A y \in DOMAIN _create_ldindex_for_population(s, min_r2) :
                         y.i # row.idx /\ y.j # row.idx

\* C12: every record of the returned LDIndex carries the population it was
\* computed from, and the records tagged with population P are exactly the
\* records P's own matrix and P's own variant index produce.
C12_RecordsCarryTheirPopulation ==
    outcome = "returned" =>
        /\ \A y \in DOMAIN result : "population" \in DOMAIN y
        /\ \A k \in DOMAIN ld_populations :
               LET p == ld_populations[k]
                   tagged == BagFilter(result, {y \in DOMAIN result : y.population = p})
                   own == IF storage[p].fault = "none"
                          THEN _create_ldindex_for_population(storage[p], min_r2)
                          ELSE EmptyBag
               IN BagMap(tagged, [y \in DOMAIN tagged |->
                                     [j |-> y.j, i |-> y.i, r |-> y.r,
                                      variantId_i |-> y.variantId_i,
                                      variantId_j |-> y.variantId_j]]) = own

\* C13: the returned LDIndex is a set union keyed on (variantIdI, variantIdJ,
\* population): the frame each population contributes holds at most one
\* record for a variantId pair, and the result is the union of those frames
\* with every r as computed for its own population (nothing averaged or
\* weighted across populations).
C13_SetUnionKeyed ==
    outcome = "returned" =>
        /\ \A k \in DOMAIN ld_indices :
               \A y \in DOMAIN ld_indices[k] :
                   SumOver(ld_indices[k],
                           {z \in DOMAIN ld_indices[k] :
                               /\ z.variantId_i = y.variantId_i
                               /\ z.variantId_j = y.variantId_j}) = 1
        /\ \A y \in DOMAIN result :
               CopiesIn(y, result) =
                   SumOver([k \in DOMAIN ld_indices |-> CopiesIn(y, ld_indices[k])],
                           DOMAIN ld_indices)

\* C14: the union step of from_gnomad is a barrier: from_gnomad ends (with
\* an LDIndex or an error) only after every listed population has reached a
\* terminal state, success or failure, and within a population the join
\* runs only after both the symmetrized matrix table and the resolved
\* variant index of that population have been produced.
C14_UnionIsABarrier ==
    /\ pc \in {"matrix", "reduce", "done"} =>
           Len(ld_indices) + Len(diagnostics) = pop_i - 1
    /\ (pc = "done" \/ outcome # "running") =>
           /\ pop_i = Len(ld_populations) + 1
           /\ Len(ld_indices) + Len(diagnostics) = Len(ld_populations)
    /\ pc \in {"resolve", "append"} =>
           /\ ld_matrix = _convert_ld_matrix_to_table(storage[pop].block_matrix, min_r2)
           /\ ld_index = _process_variant_indices(storage[pop].ld_index_raw)
    /\ pc = "append" => pop_ld_index = _resolve_variant_indices(ld_index, ld_matrix)

\* C14 witness: from_gnomad returned an LDIndex for two populations, one
\* terminated by failure and one by success with a joined frame
C14_Witness ==
    /\ outcome = "returned"
    /\ Len(ld_populations) = 2
    /\ Len(diagnostics) = 1
    /\ Len(ld_indices) = 1
    /\ ld_indices[1] # EmptyBag

\* C15: when the dataframe from_gnomad wraps in the LDIndex fails
\* validate_schema, the ValueError reaches the caller: it is not turned into
\* a failure diagnostic by the per-population handler, and from_gnomad never
\* returns an LDIndex whose dataframe failed validate_schema.
C15_ValidationFailurePropagates ==
    /\ outcome = "returned" => validate_schema(ResolvedSchema, schema) = "valid"
    /\ (pc = "done" /\ ld_indices # <<>>
            /\ validate_schema(ResolvedSchema, schema) = "ValueError") =>
           /\ outcome = "ValueError"
           /\ result = EmptyBag
    /\ \A d \in DOMAIN diagnostics :
           /\ \E k \in DOMAIN ld_populations : diagnostics[d].population = ld_populations[k]
           /\ diagnostics[d].error \in Faults

\* C15 witness: every population produced its frame, the union has rows, and
\* the run ended with the ValueError of the schema validation
C15_Witness ==
    /\ outcome = "ValueError"
    /\ diagnostics = <<>>
    /\ Len(ld_indices) = 2
    /\ Reduce(ld_indices) # EmptyBag

\* C16: for the worked example (min_r2 = 0.7, the six stored entries, idx 0,
\* 1, 2 resolving to 1_100_A_G, 1_200_A_T, 1_300_C_G), thresholding,
\* symmetrizing and resolving yield exactly the seven entries (0,0,1.0),
\* (1,1,1.0), (2,2,1.0), (0,1,0.9), (1,0,0.9), (1,2,0.85), (2,1,0.85), each
\* once, each index replaced by its variant identifier, r unchanged.
C16_WorkedExample ==
    LET id == <<"1_100_A_G", "1_200_A_T", "1_300_C_G">>
        Entry(a, b, r) == [i |-> a, j |-> b, r |-> r,
                           variantId_i |-> id[a + 1], variantId_j |-> id[b + 1]]
    IN (/\ pc = "append"
        /\ storage[pop] = Readable(ExampleMatrix, ExampleTable)
        /\ min_r2 = 7000) =>
           pop_ld_index = SetToBag({Entry(0, 0, 100), Entry(1, 1, 100), Entry(2, 2, 100),
                                    Entry(0, 1, 90), Entry(1, 0, 90),
                                    Entry(1, 2, 85), Entry(2, 1, 85)})

\* C17: the variantId _process_variant_indices assigns to a row is a
\* function of that row alone: the "_"-joined composition of the lifted
\* chromosome, the lifted position and the two alleles in their original
\* order; two rows with equal lifted locus and alleles get the same
\* variantId, whatever their idx and whatever the other rows are.
C17_VariantIdOfTheRowAlone ==
    pc \in {"resolve", "append"} =>
        LET raw == DOMAIN storage[pop].ld_index_raw
            Lift(row) == grch37_to_grch38_chain(row.contig, row.position)
            Composition(row) ==
                StripChr(Lift(row).contig) \o "_" \o ToString(Lift(row).position)
                    \o "_" \o row.alleles[1] \o "_" \o row.alleles[2]
            derived == DOMAIN DerivedVariantIds(storage[pop].ld_index_raw)
        IN /\ \A x \in DOMAIN ld_index :
                  \E row \in raw : row.idx = x.idx /\ x.variantId = Composition(row)
           /\ \A x \in derived :
                  \E row \in raw : row.idx = x.idx /\ x.variantId = Composition(row)
           /\ \A a, b \in raw :
                  (/\ IsNotNull(Lift(a).position)
                   /\ Lift(a) = Lift(b)
                   /\ a.alleles = b.alleles) =>
                      \A x, y \in derived :
                          (x.idx = a.idx /\ y.idx = b.idx) => x.variantId = y.variantId

\* C17 witness: a variant index with a row, built from a table in which two
\* rows of different idx lift to the same locus with the same alleles
C17_Witness ==
    /\ pc = "resolve"
    /\ ld_index # EmptyBag
    /\ \E a, b \in DOMAIN storage[pop].ld_index_raw :
           /\ a.idx # b.idx
           /\ IsNotNull(grch37_to_grch38_chain(a.contig, a.position).position)
           /\ grch37_to_grch38_chain(a.contig, a.position)
                  = grch37_to_grch38_chain(b.contig, b.position)
           /\ a.alleles = b.alleles

\* C18: when the stored matrix holds two distinct entries for the same
\* (row, col) pair, the reconstruction neither merges them nor passes them
\* through unnoticed: the duplication is reported as an InvariantViolation
\* the caller can log-and-drop (a failure diagnostic) or fail on.
C18_DuplicateEntryReported ==
    LET duplicated == \E a, b \in DOMAIN SymmetrizerInput :
                          a.i = b.i /\ a.j = b.j /\ a.r # b.r
    IN (pc \in {"index", "resolve", "append"} /\ duplicated) =>
           \/ \E d \in DOMAIN diagnostics :
                  /\ diagnostics[d].population = pop
                  /\ diagnostics[d].error = "InvariantViolation"
           \/ outcome = "InvariantViolation"

\* C19: Dataset.filter(condition) returns a new instance of the receiver's
\* class holding exactly the receiver's rows on which the condition is true,
\* and leaves the receiver's dataframe and schema as they were; the same
\* holds for valid_rows, with the condition it builds from the flags.
C19_FilterReturnsNewDataset ==
    call.op \in {"filter", "valid_rows"} =>
        LET self == call.receiver
            mappings == get_QC_mappings(self.cls)
            reasons == {mappings[call.invalid_flags[k]] : k \in DOMAIN call.invalid_flags}
            condition ==
                IF call.op = "filter" THEN call.condition
                ELSE [kind |-> IF call.invalid THEN "not_filterCondition"
                               ELSE "filterCondition",
                      value |-> "", reasons |-> reasons]
        IN /\ dataset = self
           /\ raised = "none" =>
                  /\ new_dataset.cls = self.cls
                  /\ new_dataset._schema = get_schema(self.cls)
                  /\ new_dataset._df.schema = self._df.schema
                  /\ \A row \in DOMAIN self._df.rows \cup DOMAIN new_dataset._df.rows :
                         CopiesIn(row, new_dataset._df.rows) =
                             IF Eval(condition, row) = "true"
                             THEN CopiesIn(row, self._df.rows)
                             ELSE 0

\* C19 witness: valid_rows returned an instance that holds some of the
\* receiver's rows and not all of them
C19_Witness ==
    /\ call.op = "valid_rows"
    /\ raised = "none"
    /\ new_dataset._df.rows # EmptyBag
    /\ new_dataset._df.rows # dataset._df.rows

\* C20: validate_schema raises ValueError exactly when the observed schema
\* (a) has a field name absent from the expected schema, or (b) lacks a
\* non-nullable field of the expected schema, or (c) has a duplicated field,
\* or (d) has a field whose data type differs from the expected type of the
\* same name; an observed schema that only omits nullable expected fields
\* is accepted.
C20_RaisesExactlyWhen ==
    call.op = "init" =>
        LET observed == call.df.schema
            expected == get_schema(call.cls)
            unexpected == \E k \in DOMAIN observed :
                              \A e \in DOMAIN expected : expected[e].name # observed[k].name
            missing == \E e \in DOMAIN expected :
                           /\ ~expected[e].nullable
                           /\ \A k \in DOMAIN observed : observed[k].name # expected[e].name
            duplicated == \E k, l \in DOMAIN observed :
                              k # l /\ observed[k].name = observed[l].name
            mistyped == \E k \in DOMAIN observed : \E e \in DOMAIN expected :
                            /\ observed[k].name = expected[e].name
                            /\ observed[k].dataType # expected[e].dataType
        IN raised = "ValueError" <=> (unexpected \/ missing \/ duplicated \/ mistyped)

\* C21: validate_schema raises ValueError for every observed schema that
\* holds two fields of the same name, also when the two fields differ in
\* data type or nullability.
C21_SameNameRejected ==
    call.op = "init" =>
        LET observed == call.df.schema
        IN (\E k, l \in DOMAIN observed :
                k # l /\ observed[k].name = observed[l].name)
               => raised = "ValueError"

\* C22: for a class with a QC column and flags that are all keys of its QC
\* mappings, valid_rows(flags) and valid_rows(flags, invalid=True) partition
\* the dataset: every row is in exactly one of the two results, it is in the
\* invalid one exactly when its QC array holds a reason mapped from one of
\* the flags, and a row with a NULL QC value is in the valid one.
C22_ValidInvalidPartition ==
    (call.op = "valid_rows" /\ raised = "none") =>
        LET self == call.receiver
            mappings == get_QC_mappings(self.cls)
            reasons == {mappings[call.invalid_flags[k]] : k \in DOMAIN call.invalid_flags}
            other == valid_rows(self, call.invalid_flags, ~call.invalid)
            valid == IF call.invalid THEN other.instance._df.rows ELSE new_dataset._df.rows
            invalid == IF call.invalid THEN new_dataset._df.rows ELSE other.instance._df.rows
        IN /\ other.raised = "none"
           /\ \A row \in DOMAIN self._df.rows :
                  /\ CopiesIn(row, valid) + CopiesIn(row, invalid)
                         = CopiesIn(row, self._df.rows)
                  /\ BagIn(row, invalid) <=> row.qualityControls.elems \cap reasons # {}
                  /\ row.qualityControls.is_null => BagIn(row, valid)

\* C23: valid_rows raises ValueError and returns no dataset when some
\* element of invalid_flags is not a key of the class's QC mappings, and
\* raises ValueError when the class has no QC column name, also for an
\* empty flag list; the receiver is left unchanged in both cases.
C23_ValidRowsValueError ==
    call.op = "valid_rows" =>
        LET self == call.receiver
            unknown_flag == \E k \in DOMAIN call.invalid_flags :
                                call.invalid_flags[k] \notin DOMAIN get_QC_mappings(self.cls)
            no_qc_column == get_QC_column_name(self.cls) = NoneName
        IN (unknown_flag \/ no_qc_column) =>
               /\ raised = "ValueError"
               /\ new_dataset = NoDataset
               /\ dataset = self

\* C23 witness: valid_rows raised for a flag that is no key of the QC
\* mappings of a class that has a QC column
C23_Witness ==
    /\ call.op = "valid_rows"
    /\ raised = "ValueError"
    /\ get_QC_column_name(call.receiver.cls) # NoneName
    /\ call.invalid_flags = <<"NOT_A_FLAG">>
    /\ call.receiver._df.rows # EmptyBag

C28_InPlaceOperationsRebindSelf ==
    call.op \in {"drop_infinity_values", "persist", "unpersist", "coalesce", "repartition"} =>
        LET self == call.receiver
            old == self._df
            finite == BagFilter(old.rows,
                                {row \in DOMAIN old.rows :
                                    row.beta \notin InfinityValues \cup {NullDouble}})
            expected ==
                CASE call.op = "drop_infinity_values" ->
                         [old EXCEPT !.rows = finite, !.persisted = FALSE]
                  [] call.op = "persist" -> [old EXCEPT !.persisted = TRUE]
                  [] call.op = "unpersist" -> [old EXCEPT !.persisted = FALSE]
                  [] call.op = "coalesce" ->
                         [old EXCEPT !.num_partitions =
                              IF call.num_partitions < @ THEN call.num_partitions ELSE @]
                  [] call.op = "repartition" ->
                         [old EXCEPT !.num_partitions = call.num_partitions]
        IN IF call.op = "drop_infinity_values" /\ call.cols = <<>>
           THEN /\ raised = "none"
                /\ call.returned_self
                /\ dataset = self
                /\ new_dataset = dataset
           ELSE raised # "AnalysisException" =>
                    /\ dataset = [self EXCEPT !._df = expected]
                    /\ raised = "ValueError"
                           <=> validate_schema(expected.schema, self._schema) = "ValueError"
                    /\ raised = "none" => (call.returned_self /\ new_dataset = dataset)

\* C28 witness: drop_infinity_values removed a row from the receiver's own
\* dataframe and returned the receiver
C28_Witness ==
    /\ call.op = "drop_infinity_values"
    /\ raised = "none"
    /\ call.returned_self
    /\ new_dataset = dataset
    /\ dataset._df.rows # call.receiver._df.rows
    /\ dataset._df.rows # EmptyBag

\* C24 (dag_genetics_etl.py 34-56): in every execution order of the built DAG,
\* install_dependencies starts only after create_cluster is finished, a step
\* task starts only after install_dependencies and the tasks of all
\* prerequisites listed for the step are finished, and delete_cluster starts
\* only after every step task is finished (finished: the task has run, or the
\* scheduler has given it up because of a failure upstream).
C24_ExecutionOrder ==
    [][(dag_pc = "built" /\ dag_pc' = "built") =>
          LET Ran == {"success", "failed"}
              create == create_cluster(CLUSTER_NAME)
              install == install_dependencies(CLUSTER_NAME)
              delete == delete_cluster(CLUSTER_NAME)
          IN  /\ (task_state[install] = "none" /\ task_state'[install] \in Ran)
                    => task_state[create] \in Finished
              /\ \A i \in DOMAIN steps :
                    (task_state[tasks[steps[i].id]] = "none" /\ task_state'[tasks[steps[i].id]] \in Ran)
                        => /\ task_state[install] \in Finished
                           /\ \A k \in DOMAIN steps[i].prerequisites :
                                  task_state[tasks[steps[i].prerequisites[k]]] \in Finished
              /\ (task_state[delete] = "none" /\ task_state'[delete] \in Ran)
                    => \A i \in DOMAIN steps : task_state[tasks[steps[i].id]] \in Finished
      ]_vars

\* C24 witness: a DAG of two steps, the second with the first as prerequisite,
\* has run to the end
C24_Witness ==
    /\ dag_pc = "built"
    /\ Len(steps) = 2
    /\ steps[2].prerequisites = <<steps[1].id>>
    /\ \A task \in DOMAIN task_state : task_state[task] = "success"

\* C26 (dag_genetics_etl.py 36-48): the step graph has no cycle and no dangling
\* edge, an edge between two step tasks goes to a step earlier in the config
\* list, and a DAG is only built when every prerequisite of every step is the
\* id of an earlier step.
C26_StepGraphAcyclic ==
    /\ ~HasCycle(upstream)
    /\ \A e \in upstream : e[1] \in DagTasks(tasks) /\ e[2] \in DagTasks(tasks)
    /\ \A i, j \in DOMAIN steps :
           <<submit_step(CLUSTER_NAME, steps[i].id), submit_step(CLUSTER_NAME, steps[j].id)>> \in upstream
               => j < i
    /\ dag_pc = "built" =>
           \A i \in DOMAIN steps : \A k \in DOMAIN steps[i].prerequisites :
               \E j \in 1..(i - 1) : steps[j].id = steps[i].prerequisites[k]

\* C25 (l2g_gold_standard.py 61-102): for every row of the positive set the
\* output has a row with its studyLocusId and geneId labelled positive, whatever
\* the V2G dataset holds; and every row labelled negative has a geneId that is
\* within the window of the row's variant and is not a curated gene of the
\* row's locus.
C25_PositivesKept ==
    gs_pc = "returned" =>
        /\ \A p \in DOMAIN positive_set :
               \E g \in DOMAIN gold_standard :
                   /\ g.studyLocusId = p.studyLocusId
                   /\ g.geneId = p.geneId
                   /\ g.goldStandardSet = GS_POSITIVE_LABEL
        /\ \A g \in DOMAIN gold_standard :
               g.goldStandardSet = GS_NEGATIVE_LABEL =>
                   /\ \E x \in DOMAIN v2g :
                          /\ x.variantId = g.variantId
                          /\ x.geneId = g.geneId
                          /\ x.distance # NullDistance
                          /\ x.distance <= LOCUS_TO_GENE_WINDOW
                   /\ \A p \in DOMAIN positive_set :
                          p.studyLocusId = g.studyLocusId => p.geneId # g.geneId

====
